---------------------------- MODULE Spec2Model ----------------------------
(***************************************************************************)
(* Model of two routines of PyNS:                                          *)
(*                                                                         *)
(*   cg       (src/solvers/nonstationary/cg.py)  preconditioned conjugate  *)
(*            gradient solver, modelled statement block by statement       *)
(*            block on a one-dimensional grid of shape (nx, 1, 1);         *)
(*   tecplot  (src/display/plot/tecplot.py)  ASCII export, modelled as     *)
(*            the sequence of its sections (analysis of the input,         *)
(*            header, coordinates, nodal blocks, cell-centered blocks).    *)
(*                                                                         *)
(* Arithmetic.  Array entries and scalars are exact rationals <<n, d>>     *)
(* with d > 0 in lowest terms; every non-finite floating-point value       *)
(* (inf, -inf, nan) is the single value NaN = <<0, 0>>.  A division by     *)
(* zero yields NaN, NaN is absorbing, and every comparison with NaN is     *)
(* false, as for numpy.float64.  Rounding is not modelled.                 *)
(*                                                                         *)
(* The verbose flag of cg only prints and is left out; tecplot is called   *)
(* without tracers.                                                        *)
(*                                                                         *)
(* Storage.  Arrays live in `heap`, a map from storage names to contents;  *)
(* Python names such as x hold a storage name, so that aliasing            *)
(* (x = phi.val) and in-place updates (x[:,:,:] += ...) are visible.       *)
(***************************************************************************)
EXTENDS Integers, Sequences, FiniteSets, TLC

VARIABLES
  \* ---- cg: arguments
  heap,        \* storage name -> array contents
  phi_bnd,     \* phi.bnd : face -> [typ, val]
  tol,         \* absolute tolerance
  max_iter,    \* the max_iter argument, then the local of the same name
  \* ---- cg: locals
  pc,          \* position in cg
  x,           \* the local x: a storage name
  i,           \* loop variable
  rho, rho_old, alfa,
  res_sq,      \* res, held as its square (norm(r)^2); see norm_lt
  ret,         \* storage name returned, "none" before the return
  exit,        \* which return statement was taken
  \* ---- cg: history
  heap0,       \* the heap at the call
  max_iter_arg,\* the max_iter argument as given
  iters,       \* number of completed executions of the loop body
  acc,         \* sum of the alfa*p computed so far
  rho_hist,    \* rho_hist[k] = rho computed in iteration k
  \* ---- tecplot
  tpc,         \* position in tecplot
  grid,        \* <<nx, ny, nz>>
  unknowns,    \* argument: sequence of [name, pos]
  arrays,      \* argument: sequence of shapes <<ax, ay, az>>
  tvars,       \* the local `vars`: sequence of key(name, pos, val, bnd)
  c_nod, c_cel,
  v,           \* loop variable of the cell-centered section
  hdr_names,   \* names written on the VARIABLES line after x y z
  varloc,      \* the four numbers written on the VARLOCATION line
  blocks       \* data blocks written after the three coordinate blocks

cgVars == <<heap, phi_bnd, tol, max_iter, pc, x, i, rho, rho_old, alfa,
            res_sq, ret, exit, heap0, max_iter_arg, iters, acc, rho_hist>>
tecVars == <<tpc, grid, unknowns, arrays, tvars, c_nod, c_cel, v,
             hdr_names, varloc, blocks>>
vars == <<cgVars, tecVars>>

-----------------------------------------------------------------------------
(* Bounds of the model *)

\* largest number of interior cells nx of the grid given to cg
MaxN == 3
\* largest explicit max_iter argument given to cg
MaxIter == 3
\* largest number of unknowns, and of arrays, given to tecplot
MaxVars == 2

-----------------------------------------------------------------------------
(* Rational arithmetic with one non-finite value *)

NaN == <<0, 0>>
Unbound == <<0, -1>>          \* a local that has not been assigned yet

Abs(n) == IF n < 0 THEN -n ELSE n

RECURSIVE GCD(_, _)
GCD(m, n) == IF n = 0 THEN m ELSE GCD(n, m % n)

Rat(n, d) ==
  LET g == GCD(Abs(n), Abs(d))
      s == IF d < 0 THEN -1 ELSE 1
  IN  <<(s * n) \div g, (s * d) \div g>>

Num(n) == <<n, 1>>
IsFinite(q) == q[2] > 0

\* sums over the least common denominator, products after cancelling
\* across, so that intermediate integers stay small
RAdd(p, q) == IF IsFinite(p) /\ IsFinite(q)
              THEN LET g == GCD(p[2], q[2])
                   IN  Rat(p[1] * (q[2] \div g) + q[1] * (p[2] \div g),
                           (p[2] \div g) * q[2])
              ELSE NaN
RNeg(p) == IF IsFinite(p) THEN <<-p[1], p[2]>> ELSE NaN
RSub(p, q) == RAdd(p, RNeg(q))
RMul(p, q) == IF IsFinite(p) /\ IsFinite(q)
              THEN LET g1 == GCD(Abs(p[1]), q[2])
                       g2 == GCD(Abs(q[1]), p[2])
                   IN  Rat((p[1] \div g1) * (q[1] \div g2),
                           (p[2] \div g2) * (q[2] \div g1))
              ELSE NaN
RDiv(p, q) == IF IsFinite(p) /\ IsFinite(q) /\ q[1] # 0
              THEN RMul(p, IF q[1] < 0 THEN <<-q[2], -q[1]>>
                                       ELSE <<q[2], q[1]>>)
              ELSE NaN
\* m/n < c/d for n, d > 0, by integer parts and then by the reciprocals
\* of the fractional parts (no product is formed)
RECURSIVE FracLess(_, _, _, _)
FracLess(m, n, c, d) ==
  IF m \div n # c \div d THEN m \div n < c \div d
  ELSE IF c % d = 0 THEN FALSE
  ELSE IF m % n = 0 THEN TRUE
  ELSE FracLess(d, c % d, n, m % n)

RLess(p, q) == IsFinite(p) /\ IsFinite(q) /\ FracLess(p[1], p[2], q[1], q[2])

(* Elementwise array operations (numpy) on arrays of equal length *)
zeros(n) == [k \in 1..n |-> Num(0)]
VAdd(s, t) == [k \in 1..Len(s) |-> RAdd(s[k], t[k])]
VSub(s, t) == [k \in 1..Len(s) |-> RSub(s[k], t[k])]
VDiv(s, t) == [k \in 1..Len(s) |-> RDiv(s[k], t[k])]
VScale(c, s) == [k \in 1..Len(s) |-> RMul(c, s[k])]

(* numpy broadcasting along the x axis: a size-1 axis is stretched *)
CanBroadcast(len, n) == len = n \/ len = 1
Broadcast(s, n) == IF Len(s) = n THEN s ELSE [k \in 1..n |-> s[1]]

-----------------------------------------------------------------------------
(* Objects handed to cg, and the storage they own *)

DIRICHLET == "DIRICHLET"
NEUMANN == "NEUMANN"
Dirs == {"W", "E", "S", "N", "B", "T"}

\* the Unknown phi: its value array, its previous-time-step array
phi == [val |-> "phi.val", old |-> "phi.old"]
\* the Matrix a: center and six neighbour coefficient arrays
a == [C |-> "a.C", W |-> "a.W", E |-> "a.E", S |-> "a.S", N |-> "a.N",
      B |-> "a.B", T |-> "a.T"]
\* the source term b
b == "b"
\* Unknown("vec_p", phi.pos, x.shape, -1, ...): boundary type -1, values 0
p == [val |-> "p.val"]
p_bnd == [d \in Dirs |-> [typ |-> "-1", val |-> Num(0)]]

Refs == {"phi.val", "phi.old", "b", "a.C", "a.W", "a.E", "a.S", "a.N",
         "a.B", "a.T", "p.val", "q", "r", "z", "tmp"}

\* x.shape, as the length along x of a (nx, 1, 1) array
shape(h, ref) == Len(h[ref])
\* prod(phi.val.shape) for a (nx, 1, 1) array
prod(h, ref) == Len(h[ref]) * 1 * 1

-----------------------------------------------------------------------------
(* pyns.solvers.vec_vec, norm, mat_vec_bnd *)

RECURSIVE SumTo(_, _, _)
SumTo(s, t, k) == IF k = 0 THEN Num(0)
                  ELSE RAdd(SumTo(s, t, k - 1), RMul(s[k], t[k]))

\* sum of the elementwise product over all cells
vec_vec(s, t) == SumTo(s, t, Len(s))

\* norm(s) < t, decided on the squares: norm(s) = sqrt(vec_vec(s, s)) >= 0
norm_lt(nsq, t) == RLess(Num(0), t) /\ RLess(nsq, RMul(t, t))

\* value seen across a boundary face from a cell holding `inner`
bnd_value(face, inner) == IF face.typ = NEUMANN THEN inner ELSE face.val

\* value of the neighbour of cell k in direction d; the grid is (nx, 1, 1),
\* so every S, N, B, T neighbour lies on a boundary
neighbor_value(val, bnd, k, d) ==
  IF d = "W" /\ k > 1 THEN val[k - 1]
  ELSE IF d = "E" /\ k < Len(val) THEN val[k + 1]
  ELSE bnd_value(bnd[d], val[k])

RECURSIVE SumDirs(_, _, _, _, _)
SumDirs(h, val, bnd, k, ds) ==
  IF ds = {} THEN Num(0)
  ELSE LET d == CHOOSE e \in ds : TRUE
       IN  RAdd(RMul(h[a[d]][k], neighbor_value(val, bnd, k, d)),
                SumDirs(h, val, bnd, k, ds \ {d}))

\* the operator's arrays and the field's value array agree in shape
mat_vec_shapes_ok(h, val) ==
  \A f \in DOMAIN a : Len(h[a[f]]) = Len(val)

\* center*value + sum over directions of coeff*neighbour value; pure
mat_vec_bnd(h, val, bnd) ==
  [k \in 1..Len(val) |->
     RAdd(RMul(h[a.C][k], val[k]), SumDirs(h, val, bnd, k, Dirs))]

-----------------------------------------------------------------------------
(* Arguments given to cg *)

\* entries of the initial guess and of the source term
XVals == {Num(0), Num(1)}
BVals == {Num(0), Num(2)}
\* tolerances: one that is never met, a tight one, a loose one
Tols == {Num(0), Rat(1, 100), Rat(3, 2)}

OpKinds == {"identity", "laplace", "diagonal", "singular", "indefinite",
            "walls"}

\* the center coefficient of cell k
OpCenter(kind, k) ==
  CASE kind = "identity"   -> Num(1)
    [] kind = "laplace"    -> Num(2)
    [] kind = "diagonal"   -> Num(k)
    [] kind = "singular"   -> Num(k - 1)
    [] kind = "indefinite" -> IF k % 2 = 1 THEN Num(1) ELSE Num(-1)
    [] kind = "walls"      -> Num(2)

\* the coefficient of every cell towards direction d
OpCoeff(kind, d) ==
  CASE kind = "laplace" -> IF d \in {"W", "E"} THEN Num(-1) ELSE Num(0)
    [] kind = "walls"   -> IF d \in {"W", "E"} THEN Num(0) ELSE Num(-1)
    [] OTHER            -> Num(0)

\* leading principal minor of order k of the tridiagonal matrix that the
\* operator is on a (nx, 1, 1) grid
RECURSIVE Minor(_, _)
Minor(h, k) ==
  IF k = 0 THEN Num(1)
  ELSE IF k = 1 THEN h[a.C][1]
  ELSE RSub(RMul(h[a.C][k], Minor(h, k - 1)),
            RMul(RMul(h[a.W][k], h[a.E][k - 1]), Minor(h, k - 2)))

\* symmetric (the coupling of k to k+1 equals that of k+1 to k) and
\* positive definite (Sylvester's criterion)
IsSPD(h) ==
  /\ \A k \in 1..(Len(h[a.C]) - 1) : h[a.E][k] = h[a.W][k + 1]
  /\ \A k \in 1..Len(h[a.C]) : RLess(Num(0), Minor(h, k))

\* center = 1 in every cell, all six neighbour coefficients = 0
IsIdentityLike(h) ==
  /\ \A k \in 1..Len(h[a.C]) : h[a.C][k] = Num(1)
  /\ \A d \in Dirs : \A k \in 1..Len(h[a[d]]) : h[a[d]][k] = Num(0)

\* TLC's integers have 32 bits.  On an operator that couples interior
\* cells the exact rationals of a third iteration on three or more cells
\* need larger products, so "laplace" is given on at most three cells, and
\* on three cells with at most two iterations
Representable(kind, n, mi) ==
  \/ kind # "laplace"
  \/ n <= 2
  \/ n = 3 /\ mi <= 3

\* boundary conditions of phi: homogeneous Dirichlet on every face; or a
\* Dirichlet value on the west face and a Neumann east face.  The second
\* is given only with operators that have neighbour coefficients (the
\* others never read a boundary value)
BndHomogeneous == [d \in Dirs |-> [typ |-> DIRICHLET, val |-> Num(0)]]
BndMixed ==
  [d \in Dirs |-> IF d = "W" THEN [typ |-> DIRICHLET, val |-> Num(1)]
                  ELSE IF d = "E" THEN [typ |-> NEUMANN, val |-> Num(0)]
                  ELSE [typ |-> DIRICHLET, val |-> Num(1)]]
BndConfigs(kind) ==
  IF kind \in {"laplace", "walls"} THEN {BndHomogeneous, BndMixed}
  ELSE {BndHomogeneous}

\* <<length of the operator's arrays, length of b>> for a field of n cells
ShapeCases(n) == {<<n, n>>, <<n, 1>>, <<n, n + 1>>, <<n + 1, n>>}

\* the contents of b: any, when b is no longer than the field; uniform
\* otherwise (the call then raises before b's entries matter)
BArrays(len, n) ==
  IF len <= n THEN [1..len -> BVals]
  ELSE {[k \in 1..len |-> e] : e \in BVals}

InitCg ==
  \E n \in 1..MaxN, kind \in OpKinds, t \in Tols,
     mi \in {-1} \cup 0..MaxIter :
  \E sh \in ShapeCases(n), x0 \in [1..n -> XVals], bc \in BndConfigs(kind) :
  \E bv \in BArrays(sh[2], n) :
    /\ Representable(kind, n, mi)
    /\ heap = [ref \in Refs |->
                 CASE ref \in {"phi.val", "phi.old"} -> x0
                   [] ref = "b" -> bv
                   [] ref = "a.C" -> [k \in 1..sh[1] |-> OpCenter(kind, k)]
                   [] ref \in {"a.W", "a.E", "a.S", "a.N", "a.B", "a.T"} ->
                        [k \in 1..sh[1] |->
                           OpCoeff(kind, CHOOSE d \in Dirs : a[d] = ref)]
                   [] OTHER -> << >>]
    /\ heap0 = heap
    /\ max_iter_arg = mi
    /\ phi_bnd = bc
    /\ tol = t
    /\ max_iter = mi
    /\ pc = "call"
    /\ x = "none"
    /\ i = 0
    /\ rho = Unbound /\ rho_old = Unbound /\ alfa = Unbound
    /\ res_sq = Unbound
    /\ ret = "none"
    /\ exit = "none"
    /\ iters = 0
    /\ acc = zeros(n)
    /\ rho_hist = << >>

-----------------------------------------------------------------------------
(* cg, lines 42-110 *)

\* Call with the residual built in b's own storage (r = b; r -= A x)
CallResidualInB ==
  /\ pc = "call"
  /\ x' = phi.val
  /\ LET n  == shape(heap, phi.val)
         hz == [heap EXCEPT ![p.val] = zeros(n), !["q"] = zeros(n),
                            !["r"] = zeros(n), !["z"] = zeros(n)]
     IN  IF /\ mat_vec_shapes_ok(heap, heap[phi.val])
            /\ CanBroadcast(Len(heap[b]), n)
         THEN /\ heap' = [hz EXCEPT
                   !["r"] = VSub(Broadcast(heap[b], n),
                                 mat_vec_bnd(heap, heap[phi.val], phi_bnd)),
                   ![b] = VSub(Broadcast(heap[b], n),
                               mat_vec_bnd(heap, heap[phi.val], phi_bnd))]
              /\ max_iter' = IF max_iter = -1 THEN prod(heap, phi.val)
                             ELSE max_iter
              /\ pc' = "for"
         ELSE /\ heap' = hz
              /\ pc' = "error"
              /\ UNCHANGED max_iter
  /\ UNCHANGED <<phi_bnd, tol, i, rho, rho_old, alfa, res_sq, ret, exit,
                 heap0, max_iter_arg, iters, acc, rho_hist>>
  /\ UNCHANGED tecVars

\* lines 46-61: alias x, allocate p, q, r, z, initial residual, default cap
Call ==
  /\ pc = "call"
  /\ x' = phi.val
  /\ LET n  == shape(heap, phi.val)
         hz == [heap EXCEPT ![p.val] = zeros(n), !["q"] = zeros(n),
                            !["r"] = zeros(n), !["z"] = zeros(n)]
     IN  IF /\ mat_vec_shapes_ok(heap, heap[phi.val])
            /\ CanBroadcast(Len(heap[b]), n)
         THEN /\ heap' = [hz EXCEPT !["r"] =
                   VSub(Broadcast(heap[b], n),
                        mat_vec_bnd(heap, heap[phi.val], phi_bnd))]
              /\ max_iter' = IF max_iter = -1 THEN prod(heap, phi.val)
                             ELSE max_iter
              /\ pc' = "for"
         ELSE /\ heap' = hz
              /\ pc' = "error"
              /\ UNCHANGED max_iter
  /\ UNCHANGED <<phi_bnd, tol, i, rho, rho_old, alfa, res_sq, ret, exit,
                 heap0, max_iter_arg, iters, acc, rho_hist>>
  /\ UNCHANGED tecVars

\* line 63: for i in range(1, max_iter), next value of i
ForStep ==
  /\ pc = "for"
  /\ i + 1 < max_iter
  /\ i' = i + 1
  /\ pc' = "precond"
  /\ UNCHANGED <<heap, phi_bnd, tol, max_iter, x, rho, rho_old, alfa,
                 res_sq, ret, exit, heap0, max_iter_arg, iters, acc, rho_hist>>
  /\ UNCHANGED tecVars

\* line 63 with the range exhausted, then line 110: return x
FallThrough ==
  /\ pc = "for"
  /\ ~(i + 1 < max_iter)
  /\ ret' = x
  /\ exit' = "exhausted"
  /\ pc' = "done"
  /\ UNCHANGED <<heap, phi_bnd, tol, max_iter, x, i, rho, rho_old, alfa,
                 res_sq, heap0, max_iter_arg, iters, acc, rho_hist>>
  /\ UNCHANGED tecVars

\* lines 69-72: z = r / a.C, rho = r * z
Precondition ==
  /\ pc = "precond"
  /\ LET zn == VDiv(heap["r"], heap[a.C])
     IN  /\ heap' = [heap EXCEPT !["z"] = zn]
         /\ rho' = vec_vec(heap["r"], zn)
         /\ rho_hist' = Append(rho_hist, vec_vec(heap["r"], zn))
  /\ pc' = "direction"
  /\ UNCHANGED <<phi_bnd, tol, max_iter, x, i, rho_old, alfa, res_sq, ret,
                 exit, heap0, max_iter_arg, iters, acc>>
  /\ UNCHANGED tecVars

\* Direction with beta = rho_old / rho
DirectionBetaInverted ==
  /\ pc = "direction"
  /\ IF i = 1
     THEN /\ heap' = [heap EXCEPT ![p.val] = heap["z"]]
          /\ pc' = "apply"
     ELSE IF rho_old = Unbound
     THEN /\ pc' = "error"
          /\ UNCHANGED heap
     ELSE /\ heap' = [heap EXCEPT ![p.val] =
                        VAdd(heap["z"],
                             VScale(RDiv(rho_old, rho), heap[p.val]))]
          /\ pc' = "apply"
  /\ UNCHANGED <<phi_bnd, tol, max_iter, x, i, rho, rho_old, alfa, res_sq,
                 ret, exit, heap0, max_iter_arg, iters, acc, rho_hist>>
  /\ UNCHANGED tecVars

\* lines 74-83: p = z in iteration 1, p = z + (rho / rho_old) p afterwards
Direction ==
  /\ pc = "direction"
  /\ IF i = 1
     THEN /\ heap' = [heap EXCEPT ![p.val] = heap["z"]]
          /\ pc' = "apply"
     ELSE IF rho_old = Unbound
     THEN /\ pc' = "error"
          /\ UNCHANGED heap
     ELSE /\ heap' = [heap EXCEPT ![p.val] =
                        VAdd(heap["z"],
                             VScale(RDiv(rho, rho_old), heap[p.val]))]
          /\ pc' = "apply"
  /\ UNCHANGED <<phi_bnd, tol, max_iter, x, i, rho, rho_old, alfa, res_sq,
                 ret, exit, heap0, max_iter_arg, iters, acc, rho_hist>>
  /\ UNCHANGED tecVars

\* lines 86-89: q = A * p, alfa = rho / (p * q)
ApplyStep ==
  /\ pc = "apply"
  /\ LET qn == mat_vec_bnd(heap, heap[p.val], p_bnd)
         al == RDiv(rho, vec_vec(heap[p.val], qn))
     IN  /\ heap' = [heap EXCEPT !["q"] = qn]
         /\ alfa' = al
         /\ acc' = VAdd(acc, VScale(al, heap[p.val]))
  /\ pc' = "update"
  /\ UNCHANGED <<phi_bnd, tol, max_iter, x, i, rho, rho_old, res_sq, ret,
                 exit, heap0, max_iter_arg, iters, rho_hist>>
  /\ UNCHANGED tecVars

\* Update with x = x + alfa p, which binds x to a new array
UpdateRebindsX ==
  /\ pc = "update"
  /\ x' = "tmp"
  /\ heap' = [heap EXCEPT
                !["tmp"] = VAdd(heap[x], VScale(alfa, heap[p.val])),
                !["r"] = VSub(heap["r"], VScale(alfa, heap["q"]))]
  /\ pc' = "check"
  /\ UNCHANGED <<phi_bnd, tol, max_iter, i, rho, rho_old, alfa, res_sq,
                 ret, exit, heap0, max_iter_arg, iters, acc, rho_hist>>
  /\ UNCHANGED tecVars

\* lines 92-95: x += alfa p and r -= alfa q, both in place
Update ==
  /\ pc = "update"
  /\ heap' = [heap EXCEPT
                ![x] = VAdd(heap[x], VScale(alfa, heap[p.val])),
                !["r"] = VSub(heap["r"], VScale(alfa, heap["q"]))]
  /\ pc' = "check"
  /\ UNCHANGED <<phi_bnd, tol, max_iter, x, i, rho, rho_old, alfa, res_sq,
                 ret, exit, heap0, max_iter_arg, iters, acc, rho_hist>>
  /\ UNCHANGED tecVars

\* Check without the return: the loop goes on after the tolerance is met
CheckNoReturn ==
  /\ pc = "check"
  /\ res_sq' = vec_vec(heap["r"], heap["r"])
  /\ iters' = iters + 1
  /\ rho_old' = rho
  /\ pc' = "for"
  /\ UNCHANGED <<ret, exit>>
  /\ UNCHANGED <<heap, phi_bnd, tol, max_iter, x, i, rho, alfa, heap0,
                 max_iter_arg, acc, rho_hist>>
  /\ UNCHANGED tecVars

\* lines 98-108: res = norm(r); return x when res < tol, else rho_old = rho
Check ==
  /\ pc = "check"
  /\ res_sq' = vec_vec(heap["r"], heap["r"])
  /\ iters' = iters + 1
  /\ IF norm_lt(vec_vec(heap["r"], heap["r"]), tol)
     THEN /\ ret' = x
          /\ exit' = "early"
          /\ pc' = "done"
          /\ UNCHANGED rho_old
     ELSE /\ rho_old' = rho
          /\ pc' = "for"
          /\ UNCHANGED <<ret, exit>>
  /\ UNCHANGED <<heap, phi_bnd, tol, max_iter, x, i, rho, alfa, heap0,
                 max_iter_arg, acc,
                 rho_hist>>
  /\ UNCHANGED tecVars

\* tecplot is not running while cg is
TecIdle ==
  /\ tpc = "idle"
  /\ grid = <<0, 0, 0>>
  /\ unknowns = << >> /\ arrays = << >> /\ tvars = << >>
  /\ c_nod = 0 /\ c_cel = 0 /\ v = 0
  /\ hdr_names = << >> /\ varloc = << >> /\ blocks = << >>

Init == InitCg /\ TecIdle

Next ==
  \/ Call
  \/ ForStep
  \/ FallThrough
  \/ Precondition
  \/ Direction
  \/ ApplyStep
  \/ Update
  \/ Check

Spec == Init /\ [][Next]_vars

-----------------------------------------------------------------------------
(* tecplot, lines 13-263 *)

\* positions of a variable on the grid (pyns.constants); N, the index of
\* the north face, doubles as the tag of a nodal variable (line 77)
C == "C"
X == "X"
Y == "Y"
Z == "Z"
N == "N"
Positions == {C, X, Y, Z, N}

\* the grids handed to tecplot, as cell counts <<nx, ny, nz>>
Grids == {<<2, 2, 2>>, <<3, 2, 1>>}

\* shape of the value array of a variable at position pos
ShapeOf(pos, g) ==
  CASE pos = C -> g
    [] pos = X -> <<g[1] - 1, g[2], g[3]>>
    [] pos = Y -> <<g[1], g[2] - 1, g[3]>>
    [] pos = Z -> <<g[1], g[2], g[3] - 1>>
    [] pos = N -> <<g[1] + 1, g[2] + 1, g[3] + 1>>

Digit == <<"0", "1", "2", "3", "4", "5", "6", "7", "8", "9">>
\* "pyns-var-%2.2d" % c
ArrayName(c) ==
  "pyns-var-" \o Digit[((c \div 10) % 10) + 1] \o Digit[(c % 10) + 1]
\* the name the caller gave to the k-th unknown
UnknownName(k) == "unknown-" \o Digit[(k % 10) + 1]

\* lines 68-77: the position of an array, from its shape
ArrayPos(sh, g) ==
  LET p0 == C
      p1 == IF sh[1] = g[1] - 1 /\ sh[2] = g[2] /\ sh[3] = g[3]
            THEN X ELSE p0
      p2 == IF sh[1] = g[1] /\ sh[2] = g[2] - 1 /\ sh[3] = g[3]
            THEN Y ELSE p1
      p3 == IF sh[1] = g[1] /\ sh[2] = g[2] /\ sh[3] = g[3] - 1
            THEN Z ELSE p2
      p4 == IF sh[1] = g[1] + 1 /\ sh[2] = g[2] + 1 /\ sh[3] = g[3] + 1
            THEN N ELSE p3
  IN  p4

\* the variables of s that are nodal (or that are not), in the order of s
RECURSIVE SelectPos(_, _)
SelectPos(s, nodal) ==
  IF s = << >> THEN << >>
  ELSE IF (Head(s).pos = N) = nodal
       THEN <<Head(s)>> \o SelectPos(Tail(s), nodal)
       ELSE SelectPos(Tail(s), nodal)

NodeCount(g) == (g[1] + 1) * (g[2] + 1) * (g[3] + 1)
CellCount(g) == g[1] * g[2] * g[3]

InitTec ==
  \E g \in Grids, nu \in 0..MaxVars, na \in 0..MaxVars :
  \E up \in [1..nu -> Positions], ap \in [1..na -> Positions] :
    /\ grid = g
    /\ unknowns = [k \in 1..nu |->
                     [name |-> UnknownName(k - 1), pos |-> up[k],
                      shape |-> ShapeOf(up[k], g)]]
    /\ arrays = [k \in 1..na |-> ShapeOf(ap[k], g)]
    /\ tpc = "analyze"
    /\ tvars = << >>
    /\ c_nod = 0 /\ c_cel = 0 /\ v = 0
    /\ hdr_names = << >> /\ varloc = << >> /\ blocks = << >>

\* cg is not running while tecplot is
CgIdle ==
  /\ heap = [ref \in Refs |-> << >>] /\ heap0 = [ref \in Refs |-> << >>]
  /\ phi_bnd = BndHomogeneous
  /\ tol = Num(0) /\ max_iter = 0 /\ max_iter_arg = 0
  /\ pc = "idle" /\ x = "none" /\ i = 0
  /\ rho = Unbound /\ rho_old = Unbound /\ alfa = Unbound
  /\ res_sq = Unbound
  /\ ret = "none" /\ exit = "none"
  /\ iters = 0 /\ acc = << >> /\ rho_hist = << >>

\* lines 34-90: gather key(name, pos, val, bnd) of every unknown, then of
\* every array (bnd is None), and count nodal and cell-centered variables
TecAnalyze ==
  /\ tpc = "analyze"
  /\ LET us == [k \in 1..Len(unknowns) |->
                  [name |-> unknowns[k].name, pos |-> unknowns[k].pos,
                   shape |-> unknowns[k].shape, bnd |-> "bnd"]]
         as == [k \in 1..Len(arrays) |->
                  [name |-> ArrayName(k - 1),
                   pos |-> ArrayPos(arrays[k], grid),
                   shape |-> arrays[k], bnd |-> "None"]]
     IN  /\ tvars' = us \o as
         /\ c_nod' = Len(SelectPos(us \o as, TRUE))
         /\ c_cel' = Len(SelectPos(us \o as, FALSE))
  /\ tpc' = "header"
  /\ UNCHANGED <<grid, unknowns, arrays, v, hdr_names, varloc, blocks>>
  /\ UNCHANGED cgVars

\* lines 97-125: title, VARIABLES (nodal names, then cell-centered names),
\* ZONE, DATAPACKING, VARLOCATION
TecHeader ==
  /\ tpc = "header"
  /\ hdr_names' =
       LET ordered == SelectPos(tvars, TRUE) \o SelectPos(tvars, FALSE)
       IN  [k \in 1..Len(ordered) |-> ordered[k].name]
  /\ varloc' = <<1, 3 + c_nod, 4 + c_nod, 3 + c_nod + c_cel>>
  /\ tpc' = "coords"
  /\ UNCHANGED <<grid, unknowns, arrays, tvars, c_nod, c_cel, v, blocks>>
  /\ UNCHANGED cgVars

\* lines 131-169: the three blocks of nodal coordinates
TecCoords ==
  /\ tpc = "coords"
  /\ blocks' = [k \in 1..3 |->
                  [name |-> <<"x", "y", "z">>[k], loc |-> "NODAL",
                   count |-> NodeCount(grid)]]
  /\ tpc' = "nodal"
  /\ UNCHANGED <<grid, unknowns, arrays, tvars, c_nod, c_cel, v, hdr_names,
                 varloc>>
  /\ UNCHANGED cgVars

\* lines 180-191: one block per nodal variable, in the order of vars
TecNodal ==
  /\ tpc = "nodal"
  /\ blocks' = blocks \o
       LET nod == SelectPos(tvars, TRUE)
       IN  [k \in 1..Len(nod) |->
              [name |-> nod[k].name, loc |-> "NODAL",
               count |-> NodeCount(grid)]]
  /\ v' = 1
  /\ tpc' = "cell"
  /\ UNCHANGED <<grid, unknowns, arrays, tvars, c_nod, c_cel, hdr_names,
                 varloc>>
  /\ UNCHANGED cgVars

\* lines 198-226, one pass of the loop over vars: a cell-centered variable
\* is averaged to cell centers when staggered, which reads its bnd, and
\* its block of nx*ny*nz values is written
TecCell ==
  /\ tpc = "cell"
  /\ v <= Len(tvars)
  /\ IF tvars[v].pos = N
     THEN /\ v' = v + 1
          /\ UNCHANGED <<tpc, blocks>>
     ELSE IF tvars[v].pos \in {X, Y, Z} /\ tvars[v].bnd = "None"
     THEN \* vars[v].bnd[W]: 'NoneType' object is not subscriptable
          /\ tpc' = "error"
          /\ UNCHANGED <<v, blocks>>
     ELSE /\ blocks' = Append(blocks,
                         [name |-> tvars[v].name, loc |-> "CELLCENTERED",
                          count |-> CellCount(grid)])
          /\ v' = v + 1
          /\ UNCHANGED tpc
  /\ UNCHANGED <<grid, unknowns, arrays, tvars, c_nod, c_cel, hdr_names,
                 varloc>>
  /\ UNCHANGED cgVars

\* lines 236-263 with no tracers: close the file and return
TecClose ==
  /\ tpc = "cell"
  /\ v > Len(tvars)
  /\ tpc' = "done"
  /\ UNCHANGED <<grid, unknowns, arrays, tvars, c_nod, c_cel, v, hdr_names,
                 varloc, blocks>>
  /\ UNCHANGED cgVars

NextTec ==
  \/ TecAnalyze
  \/ TecHeader
  \/ TecCoords
  \/ TecNodal
  \/ TecCell
  \/ TecClose

TecInit == InitTec /\ CgIdle

SpecTecplot == TecInit /\ [][NextTec]_vars

-----------------------------------------------------------------------------
(* Properties of cg *)

\* the operator, the field and the source term of the call agree in shape
ShapesAgree ==
  /\ mat_vec_shapes_ok(heap0, heap0[phi.val])
  /\ Len(heap0[b]) = Len(heap0[phi.val])

\* C1: when the residual norm never drops below tol, the loop body has run
\* exactly max_iter times when cg returns, max_iter being the number of
\* cells prod(phi.val.shape) when the argument is -1.
C1_BodyRunsMaxIterTimes ==
  (pc = "done" /\ exit = "exhausted") =>
     /\ iters = max_iter
     /\ max_iter_arg = -1 => max_iter = prod(heap0, phi.val)

\* C2: for an identity-like operator, the array returned after one
\* iteration (max_iter = 1, or one executed iteration) equals b in every
\* cell, for every b and every initial guess.
C2_IdentityExactAfterOneIteration ==
  (/\ pc = "done"
   /\ ShapesAgree
   /\ IsIdentityLike(heap0)
   /\ max_iter_arg = 1 \/ iters = 1) => heap[ret] = heap0[b]

\* C3: for a symmetric positive-definite operator and the default max_iter,
\* cg reaches norm(r) < tol within the iterations it is given: it never
\* falls through the end of the loop with norm(r) >= tol.
C3_SPDConverges ==
  (/\ pc = "done"
   /\ ShapesAgree
   /\ IsSPD(heap0)
   /\ max_iter_arg = -1
   /\ exit = "exhausted") => norm_lt(vec_vec(heap["r"], heap["r"]), tol)

\* C4: at the first convergence check that finds norm(r) < tol, cg returns
\* x at once: the next step is the return, it changes no array, and the
\* array returned is the initial guess plus the updates alfa*p of the
\* iterations executed.
C4_EarlyExit ==
  /\ [][(pc = "check" /\ norm_lt(vec_vec(heap["r"], heap["r"]), tol)) =>
          (pc' = "done" /\ exit' = "early" /\ ret' = x /\ heap' = heap)]_vars
  /\ []((pc = "done" /\ exit = "early") =>
          /\ iters = i
          /\ heap[ret] = VAdd(heap0[phi.val], acc))

C4_Witness ==
  /\ pc = "done" /\ exit = "early" /\ i = 2
  /\ heap[ret] # heap0[phi.val]

\* C5: the array returned is the storage of phi.val: x names phi.val from
\* the call on, every update alfa*p is in phi.val once made, and on every
\* return ret names phi.val.
C5_ReturnAliasesPhiVal ==
  /\ pc # "call" => x = phi.val
  /\ pc \in {"check", "for", "precond", "direction", "done"} =>
       heap[phi.val] = VAdd(heap0[phi.val], acc)
  /\ pc = "done" => (ret = phi.val /\ heap[ret] = heap[phi.val])

C5_Witness ==
  /\ pc = "done" /\ exit = "exhausted" /\ iters = 2
  /\ heap[phi.val] # heap0[phi.val]

\* C6: cg writes no caller-visible storage but phi.val: phi.old, b and the
\* seven coefficient arrays of the operator keep their contents.
C6_WritesOnlyPhiVal ==
  \A ref \in {phi.old, b} \cup {a[f] : f \in DOMAIN a} :
     heap[ref] = heap0[ref]

C6_Witness ==
  /\ pc = "done" /\ iters = 2
  /\ heap[phi.val] # heap0[phi.val]
  /\ heap["r"] # heap0[b]

\* C7: when the operator, phi.val and b disagree in shape, cg raises before
\* any update of phi.val; no call with mismatched shapes returns normally.
C7_ShapeMismatchFailsFast ==
  ~ShapesAgree => (pc # "done" /\ heap[phi.val] = heap0[phi.val])

\* C9: the search direction is p = z in iteration 1 and
\* p = z + (rho / rho_old) p in every later iteration i, rho_old being the
\* rho of iteration i-1; rho_old is bound whenever it is read, and it is
\* assigned only after a convergence check that failed.
C9_DirectionUpdate ==
  /\ [][pc = "direction" =>
          /\ pc' = "apply"
          /\ heap'[p.val] =
               IF i = 1 THEN heap["z"]
               ELSE VAdd(heap["z"],
                         VScale(RDiv(rho, rho_hist[i - 1]), heap[p.val]))]_vars
  /\ []((pc = "direction" /\ i >= 2) =>
          (rho_old # Unbound /\ rho_old = rho_hist[i - 1]))
  /\ [][rho_old' # rho_old =>
          /\ pc = "check"
          /\ ~norm_lt(res_sq', tol)
          /\ rho_old' = rho]_vars

C9_Witness ==
  /\ pc = "apply" /\ i = 2
  /\ IsFinite(rho) /\ IsFinite(rho_old)
  /\ rho_old[1] # 0 /\ rho[1] # 0 /\ rho # rho_old

-----------------------------------------------------------------------------
(* Properties of tecplot *)

\* the variables of vars that come from `arrays` and are classified as
\* staggered
StaggeredArrays ==
  {k \in 1..Len(tvars) : tvars[k].bnd = "None" /\ tvars[k].pos \in {X, Y, Z}}

\* C8: every array of `arrays` is exported; for an array classified as
\* staggered the export raises no error, and once finished it has written
\* a cell-centered block of nx*ny*nz values for that array.
C8_StaggeredArraysExported ==
  \A k \in StaggeredArrays :
     /\ tpc # "error"
     /\ tpc = "done" =>
          \E m \in 1..Len(blocks) :
             /\ blocks[m].name = tvars[k].name
             /\ blocks[m].loc = "CELLCENTERED"
             /\ blocks[m].count = CellCount(grid)

\* C10: in the file left by tecplot the header and the data agree: the
\* k-th name after x y z is the variable of the k-th block after the three
\* coordinate blocks, VARLOCATION tags [1 .. 3+c_nod] NODAL and
\* [4+c_nod .. 3+c_nod+c_cel] CELLCENTERED, exactly as the blocks are,
\* c_nod + c_cel is the number of variables, and the cell-centered range
\* has its lower bound <= its upper bound.
C10_HeaderMatchesData ==
  tpc \in {"done", "error"} =>
     /\ Len(blocks) = 3 + Len(hdr_names)
     /\ \A k \in 1..Len(hdr_names) : blocks[3 + k].name = hdr_names[k]
     /\ varloc = <<1, 3 + c_nod, 4 + c_nod, 3 + c_nod + c_cel>>
     /\ c_nod + c_cel = Len(unknowns) + Len(arrays)
     /\ \A m \in 1..Len(blocks) :
          /\ (varloc[1] <= m /\ m <= varloc[2]) <=> blocks[m].loc = "NODAL"
          /\ (varloc[3] <= m /\ m <= varloc[4])
               <=> blocks[m].loc = "CELLCENTERED"
     /\ varloc[3] <= varloc[4]

=============================================================================
